---- MODULE Spec2Model ----
(***************************************************************************)
(* Verification model of EonianCoda/2d_fan_alignment.                      *)
(*                                                                         *)
(*   utils/tool.py  Warmup_ReduceLROnPlateau (two-phase learning-rate      *)
(*                  scheduler) and train (the epoch loop)                  *)
(*   model/FAN.py   HourGlassNet (recursive hourglass) and FAN (stacked    *)
(*                  predictor), modelled on tensor shapes                  *)
(*                                                                         *)
(* Three specifications share the module: SpecLR drives the scheduler      *)
(* alone, SpecNet constructs and runs the network, SpecTrain runs train()  *)
(* with a constructed scheduler.                                           *)
(*                                                                         *)
(* Rates are exact rationals [n, d] in units of 1e-10 (float rounding is   *)
(* not modelled).  A metric is <<>> (None) or <<m>> with m a validation    *)
(* loss in units of 1e-4.  The behaviour of the torch base classes that    *)
(* the repository's classes call into (_LRScheduler.__init__, which calls  *)
(* self.step() once, and ReduceLROnPlateau with its default arguments) is  *)
(* modelled at the call sites in utils/tool.py.                            *)
(***************************************************************************)
EXTENDS Integers, Sequences, FiniteSets, TLC

VARIABLES
    \* ---- Warmup_ReduceLROnPlateau and its optimizer ----
    sStatus,        \* "unbuilt" | "ready" | "failed"
    sRaised,        \* exception of the last constructor/step call, or "none"
    warm_up_epoch,  \* self.warm_up_epoch
    patience,       \* self.after_scheduler.patience
    base_lrs,       \* self.base_lrs, one rate per parameter group
    lr,             \* optimizer.param_groups[g]['lr']
    last_epoch,     \* self.last_epoch
    best,           \* after_scheduler.best  (<<>> is +inf)
    num_bad_epochs, \* after_scheduler.num_bad_epochs
    last_lr,        \* after_scheduler._last_lr
    cur_lr,         \* the local cur_lr of the last step call
    handled,        \* branch of step that handled the last call
    lastMetric,     \* argument of the last step call
    \* history of the plateau phase (not program state)
    plateauCalls,   \* number of calls handled by after_scheduler.step
    badRun,         \* consecutive non-improving plateau calls so far
    runStartLr,     \* optimizer rates when the current run began
    steps,          \* number of step calls made by the environment
    \* ---- HourGlassNet / FAN ----
    nStatus,        \* "unbuilt" | "built"
    num_HG, HG_depth, num_feats, num_classes, use_SE,
    training,       \* nn.Module.training of the network
    modules,        \* names registered with add_module by FAN.__init__
    inShape,        \* the input tensor <<batch, channels, H, W>> offered
    fpc,            \* position in FAN.forward
    stack_idx,      \* loop variable of FAN.forward
    x,              \* local x of FAN.forward (a shape, or Err)
    residual,       \* local residual of FAN.forward
    outputs,        \* local outputs of FAN.forward
    stemOut,        \* shape of x after the base part
    reinjected,     \* stages whose re-injection block ran
    hgOut,          \* result of a direct HourGlassNet.forward call
    \* ---- train ----
    tpc,            \* position in train()
    nEpochs,        \* the argument epoch
    nTrain, nVal,   \* number of batches of train_loader / val_loader
    epoch,          \* loop variable epoch
    batch,          \* batches done in the running loop
    params,         \* number of optimizer steps applied to the model
    files,          \* checkpoint directory: file name -> saved params
    trace,          \* events of the running epoch, in order
    epochsDone      \* completed loop iterations

schedVars == <<sStatus, sRaised, warm_up_epoch, patience, base_lrs, lr,
               last_epoch, best, num_bad_epochs, last_lr, cur_lr, handled,
               lastMetric, plateauCalls, badRun, runStartLr, steps>>
netVars == <<nStatus, num_HG, HG_depth, num_feats, num_classes, use_SE,
             training, modules, inShape, fpc, stack_idx, x, residual, outputs,
             stemOut, reinjected, hgOut>>
trainVars == <<tpc, nEpochs, nTrain, nVal, epoch, batch, params, files,
               trace, epochsDone>>
vars == <<schedVars, netVars, trainVars>>

----------------------------------------------------------------------------
(* Bounds of the model *)
MaxWarm == 3
MaxPatience == 2
MaxSteps == 9

(* Program constants *)
CfgLr == 1000000         \* cfg 'lr': 1e-4
Eps == 100               \* ReduceLROnPlateau eps = 1e-8
FactorDen == 10          \* ReduceLROnPlateau factor = 0.1
ThresholdDen == 10000    \* ReduceLROnPlateau threshold = 1e-4, mode rel

\* optimizer.param_groups
Groups == 1..2
NoMetric == <<>>
Metrics == {<<5000>>, <<9999>>, <<10000>>}

----------------------------------------------------------------------------
(* Exact rationals *)
RECURSIVE GCD(_, _)
GCD(a, b) == IF b = 0 THEN a ELSE GCD(b, a % b)

Rat(n, d) == LET g == GCD(n, d) IN
             IF g = 0 THEN [n |-> 0, d |-> 1] ELSE [n |-> n \div g, d |-> d \div g]
Scale(r, n, d) == Rat(r.n * n, r.d * d)
RLess(a, b) == a.n * b.d < b.n * a.d
RLeq(a, b) == a.n * b.d <= b.n * a.d
RSub(a, b) == Rat(a.n * b.d - b.n * a.d, a.d * b.d)
RMax(a, b) == IF RLess(a, b) THEN b ELSE a
Zero == Rat(0, 1)

BaseRates == {Rat(CfgLr, 1), Rat(CfgLr, 1000)}

----------------------------------------------------------------------------
(* Warmup_ReduceLROnPlateau.get_lr                                         *)

\* float(self.last_epoch + 1) / self.warm_up_epoch divides by zero
GetLrRaises(le, W) == le < W /\ W = 0

\* the spec's ramp base_rate * epoch / warmup_length
WarmupRate_EpochOverW(b, le, W) == Scale(b, le, W)

\* base_lr * (float(self.last_epoch + 1) / self.warm_up_epoch)
WarmupRate(b, le, W) == Scale(b, le + 1, W)

get_lr(s, le) ==
    IF le < s.warm_up_epoch
    THEN [g \in Groups |-> WarmupRate(s.base_lrs[g], le, s.warm_up_epoch)]
    ELSE s.last_lr

(* torch ReduceLROnPlateau(optimizer, patience=patience): mode 'min',       *)
(* factor 0.1, threshold 1e-4 'rel', cooldown 0, min_lr 0, eps 1e-8.        *)

\* is_better: a < best * (1 - threshold); best starts at +inf
IsBetter(a, b) == b = <<>> \/ a[1] * ThresholdDen < b[1] * (ThresholdDen - 1)

\* _reduce_lr for one group: new = max(old * factor, min_lr), applied
\* only if old - new > eps
ReduceOne(old) ==
    LET new == RMax(Scale(old, 1, FactorDen), Zero)
    IN IF RLess(Rat(Eps, 1), RSub(old, new)) THEN new ELSE old

\* a controller that reduces as soon as num_bad_epochs reaches patience
ShouldReduce_AtPatience(nb, P) == nb >= P

\* if self.num_bad_epochs > self.patience
ShouldReduce(nb, P) == nb > P

\* after_scheduler.step(metric): the fields of s it changes
PlateauStep(s, metric) ==
    LET better == IsBetter(metric, s.best)
        nb1 == IF better THEN 0 ELSE s.num_bad_epochs + 1
        reduce == ShouldReduce(nb1, s.patience)
        rates == IF reduce THEN [g \in Groups |-> ReduceOne(s.lr[g])] ELSE s.lr
    IN [s EXCEPT !.best = IF better THEN metric ELSE s.best,
                 !.num_bad_epochs = IF reduce THEN 0 ELSE nb1,
                 !.lr = rates,
                 !.last_lr = rates]

\* a ramp that still runs at epoch = warm_up_epoch
InWarmup_Inclusive(e, W) == e <= W

\* if self.last_epoch < self.warm_up_epoch
InWarmup(e, W) == e < W

(* Warmup_ReduceLROnPlateau.step(metric) on the object state s: the state   *)
(* after the call, with the exception raised (or "none") and the branch     *)
(* that handled it.  Lines 41-42 only print and change nothing.  The read   *)
(* of after_scheduler._last_lr in get_lr is taken to be defined from the    *)
(* construction of after_scheduler on, as ReduceLROnPlateau.__init__ sets   *)
(* it in current torch.                                                     *)
StepCall(s, metric) ==
    IF GetLrRaises(s.last_epoch, s.warm_up_epoch)
    THEN [s EXCEPT !.raised = "ZeroDivisionError", !.handled = "none"]
    ELSE LET cur == get_lr(s, s.last_epoch)
             e == IF s.last_epoch = 0 THEN 1 ELSE s.last_epoch + 1
             s1 == [s EXCEPT !.cur_lr = cur, !.last_epoch = e]
         IN IF InWarmup(e, s.warm_up_epoch)
            THEN [s1 EXCEPT !.lr = get_lr(s1, e),
                            !.raised = "none", !.handled = "warmup"]
            ELSE IF metric # NoMetric
            THEN [PlateauStep(s1, metric) EXCEPT
                            !.raised = "none", !.handled = "plateau"]
            ELSE [s1 EXCEPT !.raised = "ValueError", !.handled = "raise"]

(* Warmup_ReduceLROnPlateau.__init__(optimizer, warm_up_epoch, patience):   *)
(* the fields are set, after_scheduler is built on the optimizer's rates,   *)
(* _LRScheduler.__init__ records base_lrs, sets last_epoch = -1 and calls   *)
(* self.step() once, then last_epoch is set to 0.                           *)
NewScheduler(W, P, rates) ==
    LET s0 == [warm_up_epoch |-> W, patience |-> P, base_lrs |-> rates,
               lr |-> rates, last_epoch |-> -1, best |-> <<>>,
               num_bad_epochs |-> 0, last_lr |-> rates, cur_lr |-> rates,
               raised |-> "none", handled |-> "none"]
        s1 == StepCall(s0, NoMetric)
    IN IF s1.raised # "none" THEN s1 ELSE [s1 EXCEPT !.last_epoch = 0]

\* the object state held in the variables
Sched == [warm_up_epoch |-> warm_up_epoch, patience |-> patience,
          base_lrs |-> base_lrs, lr |-> lr, last_epoch |-> last_epoch,
          best |-> best, num_bad_epochs |-> num_bad_epochs,
          last_lr |-> last_lr, cur_lr |-> cur_lr,
          raised |-> sRaised, handled |-> handled]

SetSched(s) ==
    /\ warm_up_epoch' = s.warm_up_epoch
    /\ patience' = s.patience
    /\ base_lrs' = s.base_lrs
    /\ lr' = s.lr
    /\ last_epoch' = s.last_epoch
    /\ best' = s.best
    /\ num_bad_epochs' = s.num_bad_epochs
    /\ last_lr' = s.last_lr
    /\ cur_lr' = s.cur_lr
    /\ sRaised' = s.raised
    /\ handled' = s.handled

SchedInit ==
    /\ sStatus = "unbuilt"
    /\ sRaised = "none"
    /\ warm_up_epoch = 0
    /\ patience = 0
    /\ base_lrs = [g \in Groups |-> Zero]
    /\ lr = [g \in Groups |-> Zero]
    /\ last_epoch = 0
    /\ best = <<>>
    /\ num_bad_epochs = 0
    /\ last_lr = [g \in Groups |-> Zero]
    /\ cur_lr = [g \in Groups |-> Zero]
    /\ handled = "none"
    /\ lastMetric = NoMetric
    /\ plateauCalls = 0
    /\ badRun = 0
    /\ runStartLr = [g \in Groups |-> Zero]
    /\ steps = 0

\* scheduler = Warmup_ReduceLROnPlateau(optimizer, W, patience=P)
Construct ==
    /\ sStatus = "unbuilt"
    /\ \E W \in 0..MaxWarm, P \in 0..MaxPatience, rates \in [Groups -> BaseRates] :
         LET s == NewScheduler(W, P, rates)
         IN /\ SetSched(s)
            /\ sStatus' = IF s.raised = "none" THEN "ready" ELSE "failed"
            /\ runStartLr' = s.lr
    /\ UNCHANGED <<lastMetric, plateauCalls, badRun, steps>>

\* scheduler.step(metric), with the history of the plateau phase
Step(metric) ==
    /\ sStatus = "ready"
    /\ steps < MaxSteps
    /\ LET s == StepCall(Sched, metric)
           improved == IsBetter(metric, best)
       IN /\ SetSched(s)
          /\ plateauCalls' = IF s.handled = "plateau" THEN plateauCalls + 1 ELSE plateauCalls
          /\ badRun' = IF s.handled # "plateau" THEN badRun
                       ELSE IF improved THEN 0 ELSE badRun + 1
          /\ runStartLr' = IF s.handled = "plateau" /\ improved THEN s.lr ELSE runStartLr
    /\ lastMetric' = metric
    /\ steps' = steps + 1
    /\ UNCHANGED sStatus

StepNoMetric == Step(NoMetric)

StepWithMetric == \E m \in Metrics : Step(m)

----------------------------------------------------------------------------
(* Tensors are shapes <<batch, channels, H, W>>; Err stands for a call that *)
(* raised (a missing module, a channel or size mismatch).                   *)
MaxHG == 2
MaxDepth == 2
MaxSize == 16

Err == <<>>
FeatChoices == {4, 8}
ClassChoices == {2, 5}

Batches == {1, 2}

\* a convolution built for cin input channels that keeps the spatial size
\* (conv1x1; the 1x1 and the padded 3x3 convolutions of a residual unit)
Conv(cin, cout, t) ==
    IF t = Err \/ t[2] # cin THEN Err ELSE <<t[1], cout, t[3], t[4]>>

\* nn.BatchNorm2d(c): in training mode a single value per channel raises
BatchNorm(c, t) ==
    IF t = Err \/ t[2] # c THEN Err
    ELSE IF training /\ t[1] * t[3] * t[4] = 1 THEN Err
    ELSE t

\* SELayer(channel): x * y, y of shape (b, c, 1, 1)
SE(c, t) == Conv(c, c, t)

\* a + b with broadcasting: sizes must be equal, or one of them 1
Add(a, b) ==
    IF a = Err \/ b = Err THEN Err
    ELSE IF \A i \in 1..4 : a[i] = b[i] \/ a[i] = 1 \/ b[i] = 1
         THEN [i \in 1..4 |-> IF a[i] = 1 THEN b[i] ELSE a[i]]
         ELSE Err

\* resBlock(cin, cout), the residual unit, a constructor argument of
\* HourGlassNet and FAN; the variant in the sources: expand 1x1, depthwise 3x3,
\* squeeze-excite, project 1x1, each convolution normalised; the input is
\* added when cin = cout
Unit(cin, cout, t) ==
    LET hidden == cin * 2
        pw == BatchNorm(hidden, Conv(cin, hidden, t))
        dw == BatchNorm(hidden, Conv(hidden, hidden, pw))
        se == SE(hidden, dw)
        out == BatchNorm(cout, Conv(hidden, cout, se))
    IN IF cin = cout THEN Add(t, out) ELSE out

\* nn.Conv2d(3, cout, kernel_size=7, stride=2, padding=3)
StemConv(cout, t) ==
    IF t = Err \/ t[2] # 3 THEN Err
    ELSE <<t[1], cout, (t[3] + 6 - 7) \div 2 + 1, (t[4] + 6 - 7) \div 2 + 1>>

\* nn.AvgPool2d / nn.MaxPool2d(kernel_size=2, stride=2): floor(size / 2);
\* an output of size 0 raises
Pool2(t) ==
    IF t = Err \/ t[3] \div 2 = 0 \/ t[4] \div 2 = 0 THEN Err
    ELSE <<t[1], t[2], t[3] \div 2, t[4] \div 2>>

\* an upsample that keeps the size
Upsample2_Keep(t) == t

\* F.interpolate(x, scale_factor=2, mode='nearest')
Upsample2(t) == IF t = Err THEN Err ELSE <<t[1], t[2], 2 * t[3], 2 * t[4]>>

\* HourGlassNet.__init__: the names registered for levels 1..depth
HGModules(depth, se) ==
    UNION {{<<"shortcut", l>>, <<"conv_1", l>>, <<"conv_2", l>>}
           \cup (IF se THEN {<<"SE", l>>} ELSE {})
           \cup (IF l = depth THEN {<<"conv_middle", 0>>} ELSE {}) : l \in 1..depth}

\* HourGlassNet._forward(x, level); self._modules[name] raises when absent
RECURSIVE HG_forward(_, _, _, _, _)
HG_forward(t, level, depth, nf, se) ==
    IF ~({<<"shortcut", level>>, <<"conv_1", level>>, <<"conv_2", level>>}
           \subseteq HGModules(depth, se))
    THEN Err
    ELSE LET res == Unit(nf, nf, t)
             d == Unit(nf, nf, Pool2(t))
             m == IF level = depth THEN Unit(nf, nf, d)
                  ELSE HG_forward(d, level + 1, depth, nf, se)
             c2 == Unit(nf, nf, m)
             g == IF se THEN SE(nf, c2) ELSE c2
         IN Add(Upsample2(g), res)

\* HourGlassNet.forward
HourGlassNet_forward(t, depth, nf, se) == HG_forward(t, 1, depth, nf, se)

\* FAN.__init__: the names registered for stage s of nhg
StackNames(s, nhg) ==
    {<<"HG", s>>, <<"conv1", s>>, <<"conv2", s>>, <<"bn1", s>>, <<"conv_out", s>>}
    \cup (IF s # nhg THEN {<<"conv3", s>>, <<"shortcut", s>>} ELSE {})

\* the arguments each registered module is built with: HourGlassNet(depth,
\* nf), resBlock(nf, nf), conv1x1(nf, nf), BatchNorm2d(nf), conv1x1(nf, nc),
\* conv1x1(nf, nf), conv1x1(nc, nf)
Arity(name, depth, nf, nc) ==
    CASE name[1] = "HG" -> <<depth, nf>>
      [] name[1] = "conv_out" -> <<nf, nc>>
      [] name[1] = "shortcut" -> <<nc, nf>>
      [] OTHER -> <<nf, nf>>

FanModules(nhg, depth, nf, nc) ==
    [n \in UNION {StackNames(s, nhg) : s \in 1..nhg} |-> Arity(n, depth, nf, nc)]

\* self._modules[name](t)
Apply(name, t) ==
    IF name \notin DOMAIN modules THEN Err
    ELSE CASE name[1] = "HG" ->
                HourGlassNet_forward(t, modules[name][1], modules[name][2], use_SE)
           [] name[1] = "conv1" -> Unit(modules[name][1], modules[name][2], t)
           [] name[1] = "bn1" -> BatchNorm(modules[name][1], t)
           [] OTHER -> Conv(modules[name][1], modules[name][2], t)

\* the base part of FAN.forward
Stem(t) ==
    LET c1 == BatchNorm(num_feats \div 4, StemConv(num_feats \div 4, t))
        c2 == Unit(num_feats \div 4, num_feats \div 2, c1)
        p == Pool2(c2)
        c3 == Unit(num_feats \div 2, num_feats \div 2, p)
    IN Unit(num_feats \div 2, num_feats, c3)

\* heatmaps collected for the last stage only
AppendOut_LastOnly(outs, s, out) ==
    IF s = num_HG THEN Append(outs, [stage |-> s, shape |-> out]) ELSE outs

\* outputs.append(out)
AppendOut(outs, s, out) == Append(outs, [stage |-> s, shape |-> out])

NetInit ==
    /\ nStatus = "unbuilt"
    /\ num_HG = 0 /\ HG_depth = 0 /\ num_feats = 0 /\ num_classes = 0
    /\ use_SE = FALSE
    /\ training = TRUE
    /\ modules = <<>>
    /\ inShape \in {t \in Batches \X {3} \X (1..MaxSize) \X (1..MaxSize) :
                       t[4] \in {t[3], 2 * t[3]}}
    /\ fpc = "idle"
    /\ stack_idx = 0
    /\ x = Err
    /\ residual = Err
    /\ outputs = <<>>
    /\ stemOut = Err
    /\ reinjected = {}
    /\ hgOut = [called |-> FALSE, out |-> Err]

\* FAN(num_HG, HG_depth, num_feats, num_classes, use_SE=...): no argument
\* is validated; the loops over range(1, n + 1) are empty for n <= 0
ConstructNet ==
    /\ nStatus = "unbuilt"
    /\ \E nhg \in 0..MaxHG, depth \in 0..MaxDepth, nf \in FeatChoices,
          nc \in ClassChoices, se \in BOOLEAN :
         /\ num_HG' = nhg /\ HG_depth' = depth /\ num_feats' = nf
         /\ num_classes' = nc /\ use_SE' = se
         /\ modules' = FanModules(nhg, depth, nf, nc)
    /\ nStatus' = "built"
    /\ training' = TRUE
    /\ UNCHANGED <<inShape, fpc, stack_idx, x, residual, outputs, stemOut,
                   reinjected, hgOut>>

\* model.train() / model.eval(), before the network is run
SetMode ==
    /\ nStatus = "built"
    /\ fpc = "idle"
    /\ ~hgOut.called
    /\ training' = ~training
    /\ UNCHANGED <<nStatus, num_HG, HG_depth, num_feats, num_classes, use_SE,
                   modules, inShape, fpc, stack_idx, x, residual, outputs,
                   stemOut, reinjected, hgOut>>

\* HourGlassNet(HG_depth, num_feats).forward on a feature tensor of
\* num_feats channels and the offered spatial size
HourGlassCall ==
    /\ nStatus = "built"
    /\ ~hgOut.called
    /\ hgOut' = [called |-> TRUE,
                 out |-> HourGlassNet_forward(
                             <<inShape[1], num_feats, inShape[3], inShape[4]>>,
                             HG_depth, num_feats, use_SE)]
    /\ UNCHANGED <<nStatus, num_HG, HG_depth, num_feats, num_classes, use_SE,
                   training, modules, inShape, fpc, stack_idx, x, residual, outputs,
                   stemOut, reinjected>>

\* FAN.forward, lines 97-103: outputs = [] and the base part
ForwardBase ==
    /\ nStatus = "built"
    /\ fpc = "idle"
    /\ LET t == Stem(inShape)
       IN /\ x' = t
          /\ stemOut' = t
          /\ fpc' = IF t = Err THEN "raised" ELSE "loop"
    /\ outputs' = <<>>
    /\ stack_idx' = 1
    /\ UNCHANGED <<nStatus, num_HG, HG_depth, num_feats, num_classes, use_SE,
                   training, modules, inShape, residual, reinjected, hgOut>>

\* FAN.forward, lines 106-120: one iteration of the loop over the stages
ForwardStage ==
    /\ fpc = "loop"
    /\ stack_idx <= num_HG
    /\ LET res == IF stack_idx # num_HG THEN x ELSE residual
           h == Apply(<<"HG", stack_idx>>, x)
           c1 == Apply(<<"conv1", stack_idx>>, h)
           c2 == Apply(<<"conv2", stack_idx>>, c1)
           b == Apply(<<"bn1", stack_idx>>, c2)
           out == Apply(<<"conv_out", stack_idx>>, b)
           c3 == Apply(<<"conv3", stack_idx>>, b)
           back == Apply(<<"shortcut", stack_idx>>, out)
           nxt == IF stack_idx # num_HG THEN Add(Add(back, res), c3) ELSE b
       IN /\ residual' = res
          /\ IF out = Err
             THEN /\ fpc' = "raised"
                  /\ UNCHANGED <<outputs, reinjected, x, stack_idx>>
             ELSE /\ outputs' = AppendOut(outputs, stack_idx, out)
                  /\ reinjected' = IF stack_idx # num_HG /\ nxt # Err
                                   THEN reinjected \cup {stack_idx} ELSE reinjected
                  /\ x' = nxt
                  /\ fpc' = IF nxt = Err THEN "raised" ELSE "loop"
                  /\ stack_idx' = IF nxt = Err THEN stack_idx ELSE stack_idx + 1
    /\ UNCHANGED <<nStatus, num_HG, HG_depth, num_feats, num_classes, use_SE,
                   training, modules, inShape, stemOut, hgOut>>

\* FAN.forward, line 121: return outputs
ForwardReturn ==
    /\ fpc = "loop"
    /\ stack_idx > num_HG
    /\ fpc' = "returned"
    /\ UNCHANGED <<nStatus, num_HG, HG_depth, num_feats, num_classes, use_SE,
                   training, modules, inShape, stack_idx, x, residual, outputs, stemOut,
                   reinjected, hgOut>>

----------------------------------------------------------------------------
(* train(model, train_loader, val_loader, epoch, save_path, device,         *)
(*       criterion, scheduler, optimizer)                                   *)
MaxEpochs == 3
MaxBatches == 2

\* the statements of one training batch with the optimizer step before
\* the clipping
TrainOrder_StepBeforeClip ==
    <<"forward", "zero_grad", "backward", "opt_step", "clip">>

\* lines 75-84: outputs = model(data) and the loss; optimizer.zero_grad();
\* loss.backward(); clip_grad_norm_(max_norm=5.); optimizer.step()
TrainOrder == <<"forward", "zero_grad", "backward", "clip", "opt_step">>

Position(stmt) == CHOOSE i \in 1..Len(TrainOrder) : TrainOrder[i] = stmt

\* the statement after stmt in the batch body, "train" after the last
NextStmt(stmt) ==
    IF Position(stmt) = Len(TrainOrder) THEN "train"
    ELSE TrainOrder[Position(stmt) + 1]

\* a checkpoint named by the 1-based epoch number
FileName_OneBased(e) == e + 1

\* os.path.join(save_path, f'{epoch}.pt')
FileName(e) == e

\* torch.save(model.state_dict(), ...): creates or overwrites the file
SaveFile(fs, e, p) ==
    [n \in DOMAIN fs \cup {FileName(e)} |-> IF n = FileName(e) THEN p ELSE fs[n]]

TrainInit ==
    /\ tpc = "idle"
    /\ nEpochs = 0 /\ nTrain = 0 /\ nVal = 0
    /\ epoch = 0
    /\ batch = 0
    /\ params = 0
    /\ files = <<>>
    /\ trace = <<>>
    /\ epochsDone = 0

\* the call of train() with a constructed scheduler
TrainBegin ==
    /\ tpc = "idle"
    /\ sStatus = "ready"
    /\ \E n \in 0..MaxEpochs, nt \in 1..MaxBatches, nv \in 1..MaxBatches :
         /\ nEpochs' = n /\ nTrain' = nt /\ nVal' = nv
    /\ tpc' = "loop"
    /\ UNCHANGED <<epoch, batch, params, files, trace, epochsDone>>

\* line 62: for epoch in range(epoch); model.train()
EpochLoop ==
    /\ tpc = "loop"
    /\ IF epochsDone < nEpochs
       THEN /\ epoch' = epochsDone
            /\ trace' = <<>>
            /\ batch' = 0
            /\ tpc' = "train"
       ELSE /\ tpc' = "done"
            /\ UNCHANGED <<epoch, trace, batch>>
    /\ UNCHANGED <<nEpochs, nTrain, nVal, params, files, epochsDone>>

\* line 71: the loop over train_loader; after it lines 89-94
TrainLoop ==
    /\ tpc = "train"
    /\ IF batch < nTrain
       THEN tpc' = TrainOrder[1] /\ UNCHANGED batch
       ELSE tpc' = "val" /\ batch' = 0
    /\ UNCHANGED <<nEpochs, nTrain, nVal, epoch, params, files, trace, epochsDone>>

\* one statement of the batch body that leaves the parameters alone
BatchStmt(stmt) ==
    /\ tpc = stmt
    /\ trace' = Append(trace, stmt)
    /\ tpc' = NextStmt(stmt)
    /\ batch' = IF NextStmt(stmt) = "train" THEN batch + 1 ELSE batch
    /\ UNCHANGED <<nEpochs, nTrain, nVal, epoch, files, epochsDone>>

TrainForward == BatchStmt("forward") /\ UNCHANGED params
ZeroGrad == BatchStmt("zero_grad") /\ UNCHANGED params
Backward == BatchStmt("backward") /\ UNCHANGED params
ClipGrad == BatchStmt("clip") /\ UNCHANGED params
OptimizerStep == BatchStmt("opt_step") /\ params' = params + 1

\* lines 96-109: one validation batch under torch.no_grad(), or the end
\* of the validation loop
ValLoop ==
    /\ tpc = "val"
    /\ IF batch < nVal
       THEN /\ trace' = Append(trace, "val_forward")
            /\ batch' = batch + 1
            /\ UNCHANGED tpc
       ELSE /\ tpc' = "sched"
            /\ UNCHANGED <<trace, batch>>
    /\ UNCHANGED <<nEpochs, nTrain, nVal, epoch, params, files, epochsDone>>

\* line 112: the argument of scheduler.step(val_loss)
SchedArg(m) == m

\* line 112: scheduler.step(val_loss)
SchedulerStep ==
    /\ tpc = "sched"
    /\ \E m \in Metrics :
         /\ Step(SchedArg(m))
         /\ trace' = Append(trace, IF SchedArg(m) = NoMetric THEN "sched_none"
                                   ELSE "sched")
    /\ tpc' = IF sRaised' = "none" THEN "save" ELSE "raised"
    /\ UNCHANGED <<nEpochs, nTrain, nVal, epoch, batch, params, files, epochsDone>>

\* line 126: torch.save(...); the iteration is complete
SaveCheckpoint ==
    /\ tpc = "save"
    /\ files' = SaveFile(files, epoch, params)
    /\ trace' = Append(trace, "save")
    /\ epochsDone' = epochsDone + 1
    /\ tpc' = "loop"
    /\ UNCHANGED <<nEpochs, nTrain, nVal, epoch, batch, params>>

----------------------------------------------------------------------------
(* Specifications *)

\* the scheduler driven by arbitrary step calls
InitLR == SchedInit /\ NetInit /\ inShape = <<1, 3, 1, 1>> /\ TrainInit
NextLR ==
    \/ Construct /\ UNCHANGED <<netVars, trainVars>>
    \/ StepNoMetric /\ UNCHANGED <<netVars, trainVars>>
    \/ StepWithMetric /\ UNCHANGED <<netVars, trainVars>>
SpecLR == InitLR /\ [][NextLR]_vars

\* the network constructed and run on one input
InitNet == SchedInit /\ NetInit /\ TrainInit
NextNet ==
    \/ ConstructNet /\ UNCHANGED <<schedVars, trainVars>>
    \/ SetMode /\ UNCHANGED <<schedVars, trainVars>>
    \/ HourGlassCall /\ UNCHANGED <<schedVars, trainVars>>
    \/ ForwardBase /\ UNCHANGED <<schedVars, trainVars>>
    \/ ForwardStage /\ UNCHANGED <<schedVars, trainVars>>
    \/ ForwardReturn /\ UNCHANGED <<schedVars, trainVars>>
SpecNet == InitNet /\ [][NextNet]_vars

\* train() run with a constructed scheduler
InitTrain == InitLR
NextTrain ==
    \/ Construct /\ UNCHANGED <<netVars, trainVars>>
    \/ TrainBegin /\ UNCHANGED <<schedVars, netVars>>
    \/ EpochLoop /\ UNCHANGED <<schedVars, netVars>>
    \/ TrainLoop /\ UNCHANGED <<schedVars, netVars>>
    \/ TrainForward /\ UNCHANGED <<schedVars, netVars>>
    \/ ZeroGrad /\ UNCHANGED <<schedVars, netVars>>
    \/ Backward /\ UNCHANGED <<schedVars, netVars>>
    \/ ClipGrad /\ UNCHANGED <<schedVars, netVars>>
    \/ OptimizerStep /\ UNCHANGED <<schedVars, netVars>>
    \/ ValLoop /\ UNCHANGED <<schedVars, netVars>>
    \/ SchedulerStep /\ UNCHANGED netVars
    \/ SaveCheckpoint /\ UNCHANGED <<schedVars, netVars>>
SpecTrain == InitTrain /\ [][NextTrain]_vars

----------------------------------------------------------------------------
(* Properties of Warmup_ReduceLROnPlateau (SpecLR)                          *)

\* the last step call was made without a metric and brought the epoch
\* counter into 1..W-1, for W >= 2
AfterWarmupStep ==
    /\ sStatus = "ready" /\ steps >= 1 /\ lastMetric = NoMetric
    /\ warm_up_epoch >= 2
    /\ last_epoch \in 1..(warm_up_epoch - 1)

\* C1 as stated: a step without a metric that brings the epoch counter to
\* e in 1..W-1 succeeds and leaves each group's rate at b * e / W, above
\* the rate before the step.
C1_RateIsEpochOverW ==
    AfterWarmupStep =>
        /\ sRaised = "none"
        /\ \A g \in Groups :
             /\ lr[g] = Scale(base_lrs[g], last_epoch, warm_up_epoch)
             /\ RLess(cur_lr[g], lr[g])

\* C1 amended: a step without a metric that brings the epoch counter to
\* e in 1..W-1 succeeds and leaves each group's rate at b * (e + 1) / W,
\* strictly above the rate before the step.
C1_RateIsNextEpochOverW ==
    AfterWarmupStep =>
        /\ sRaised = "none"
        /\ handled = "warmup"
        /\ \A g \in Groups :
             /\ lr[g] = Scale(base_lrs[g], last_epoch + 1, warm_up_epoch)
             /\ RLess(cur_lr[g], lr[g])

C1_Witness ==
    /\ AfterWarmupStep
    /\ warm_up_epoch = 3 /\ last_epoch = 1 /\ steps = 1
    /\ lr[1] = Scale(base_lrs[1], 2, 3)

\* C2: a step whose new epoch counter is >= W raises the missing-metric
\* ValueError when called without a metric, and with a metric raises
\* nothing and is handled by after_scheduler.step.
C2_MetricRequiredPastWarmup ==
    (sStatus = "ready" /\ steps >= 1 /\ last_epoch >= warm_up_epoch) =>
        IF lastMetric = NoMetric
        THEN sRaised = "ValueError" /\ handled = "raise"
        ELSE /\ sRaised = "none" /\ handled = "plateau"
             /\ plateauCalls >= 1 /\ best # <<>> /\ last_lr = lr

C2_Witness ==
    /\ sStatus = "ready" /\ last_epoch > warm_up_epoch
    /\ lastMetric = NoMetric /\ sRaised = "ValueError"
    /\ plateauCalls >= 1

\* the phase of the controller: the branch that handled the last call
Phase == IF handled = "warmup" THEN "WARMUP" ELSE "PLATEAU"

\* C3: every construction yields a controller, in WARMUP when W > 0 and in
\* PLATEAU when W = 0, and in every state the controller is in WARMUP iff
\* last_epoch < warm_up_epoch.
C3_PhaseFollowsEpoch ==
    sStatus # "unbuilt" =>
        /\ sStatus = "ready"
        /\ Phase = "WARMUP" <=> last_epoch < warm_up_epoch
        /\ steps = 0 =>
             Phase = (IF warm_up_epoch > 0 THEN "WARMUP" ELSE "PLATEAU")

\* the part of C3 the code keeps: a constructed controller (W >= 1) is in
\* WARMUP iff last_epoch < warm_up_epoch
PhaseFollowsEpochWhenBuilt ==
    sStatus = "ready" =>
        /\ warm_up_epoch >= 1
        /\ Phase = "WARMUP" <=> last_epoch < warm_up_epoch

\* and a step handled past the warmup is never followed by a warmup step
PhaseIsMonotonic ==
    [][(sStatus = "ready" /\ Phase = "PLATEAU") => Phase' = "PLATEAU"]_vars

\* r multiplied k times by the plateau factor
RECURSIVE TimesFactor(_, _)
TimesFactor(r, k) == IF k = 0 THEN r ELSE TimesFactor(Scale(r, 1, FactorDen), k - 1)

\* a reduction of r would change it by no more than eps
AtEpsFloor(r) == RLeq(Scale(r, FactorDen - 1, FactorDen), Rat(Eps, 1))

\* the rate of every group after one reduction per `window` calls of the
\* running non-improving run; a group stays where a reduction would
\* change it by no more than eps
ReducedOncePer(window) ==
    \A g \in Groups :
        LET k == badRun \div window
        IN \/ lr[g] = TimesFactor(runStartLr[g], k)
           \/ /\ AtEpsFloor(lr[g])
              /\ \E j \in 0..(k - 1) : lr[g] = TimesFactor(runStartLr[g], j)

\* C4 as stated: in a run of non-improving plateau calls the rate is
\* multiplied by the factor once per window of `patience` calls.
C4_OncePerPatienceCalls ==
    (sStatus = "ready" /\ plateauCalls >= 1 /\ patience >= 1) =>
        ReducedOncePer(patience)

\* C4 amended: in a run of non-improving plateau calls the rate is
\* multiplied by the factor once per window of patience + 1 calls, at the
\* last call of the window, unless the change would not exceed eps.
C4_OncePerPatiencePlusOneCalls ==
    (sStatus = "ready" /\ plateauCalls >= 1) => ReducedOncePer(patience + 1)

C4_Witness ==
    /\ sStatus = "ready" /\ patience = 2 /\ badRun = 6
    /\ lr[1] = TimesFactor(runStartLr[1], 2)
    /\ lr[1] # runStartLr[1]

\* C10: until the first plateau step no group's rate exceeds its base
\* rate, the first plateau step is taken from the base rate, and it leaves
\* the base rate in place.
C10_HandOverAtBaseRate ==
    (sStatus = "ready" /\ warm_up_epoch >= 1) =>
        /\ plateauCalls = 0 => \A g \in Groups : RLeq(lr[g], base_lrs[g])
        /\ (plateauCalls = 0 /\ last_epoch + 1 >= warm_up_epoch) => lr = base_lrs
        /\ plateauCalls = 1 => lr = base_lrs /\ runStartLr = base_lrs

C10_Witness ==
    /\ sStatus = "ready" /\ warm_up_epoch = 3 /\ last_epoch = 3
    /\ plateauCalls = 1 /\ handled = "plateau" /\ lr = base_lrs

----------------------------------------------------------------------------
(* Properties of HourGlassNet and FAN (SpecNet)                             *)

RECURSIVE Pow2(_)
Pow2(k) == IF k = 0 THEN 1 ELSE 2 * Pow2(k - 1)

\* the feature tensor given to the direct HourGlassNet call
HgIn == <<inShape[1], num_feats, inShape[3], inShape[4]>>

\* C5 as stated: for every depth >= 1 and every input (batch, num_feats,
\* H, W), HourGlassNet.forward returns a tensor of the input's shape.
C5_ShapePreservedForAnySize ==
    (hgOut.called /\ HG_depth >= 1) => hgOut.out = HgIn

\* in training mode the deepest level holds a single value per channel
SingleValueInTraining ==
    /\ training
    /\ inShape[1] * (inShape[3] \div Pow2(HG_depth))
                  * (inShape[4] \div Pow2(HG_depth)) = 1

\* C5 amended: for every depth >= 1 and every input (batch, num_feats,
\* H, W) with H and W multiples of 2^depth, HourGlassNet.forward returns a
\* tensor of the input's shape, unless the module is in training mode
\* and the deepest level holds a single value per channel.
C5_ShapePreservedForDivisibleSize ==
    (/\ hgOut.called /\ HG_depth >= 1
     /\ inShape[3] % Pow2(HG_depth) = 0
     /\ inShape[4] % Pow2(HG_depth) = 0
     /\ ~SingleValueInTraining) => hgOut.out = HgIn

C5_Witness ==
    /\ hgOut.called /\ HG_depth = 2 /\ inShape[3] = 4 /\ inShape[4] = 8
    /\ hgOut.out = HgIn

\* C6: a forward pass of a FAN with num_HG >= 1 that returns, returns
\* num_HG heatmaps in stage order, each with num_classes channels and the
\* spatial size of the stem's output; the re-injection ran for the stages
\* 1..num_HG-1 and never for the last.
C6_OneHeatmapPerStage ==
    /\ nStatus = "built" => num_HG \notin reinjected
    /\ (fpc = "returned" /\ num_HG >= 1) =>
          /\ Len(outputs) = num_HG
          /\ \A i \in 1..num_HG :
                outputs[i] = [stage |-> i,
                              shape |-> <<inShape[1], num_classes,
                                          stemOut[3], stemOut[4]>>]
          /\ reinjected = 1..(num_HG - 1)

C6_Witness ==
    /\ fpc = "returned" /\ num_HG = 2 /\ HG_depth = 2
    /\ Len(outputs) = 2 /\ reinjected = {1}

\* C8: no network is built from a non-positive num_HG, HG_depth,
\* num_feats or num_classes, and none with zero stages is run forward.
C8_NonPositiveRejected ==
    /\ nStatus = "built" =>
          num_HG >= 1 /\ HG_depth >= 1 /\ num_feats >= 1 /\ num_classes >= 1
    /\ fpc = "returned" => num_HG >= 1

----------------------------------------------------------------------------
(* Properties of train (SpecTrain)                                          *)

\* C7 as stated: once k epochs have completed the checkpoint directory
\* holds exactly the files named 1..k.
C7_FilesOneToK ==
    epochsDone >= 1 => DOMAIN files = 1..epochsDone

\* C7 amended: the loop variable runs over 0..N-1; once k epochs have
\* completed the directory holds exactly the files named 0..k-1, the last
\* of them with the parameters after the k-th epoch's optimizer steps.
C7_FilesZeroToKMinusOne ==
    /\ DOMAIN files = 0..(epochsDone - 1)
    /\ epochsDone >= 1 => files[epochsDone - 1] = epochsDone * nTrain
    /\ epochsDone <= nEpochs
    /\ tpc = "done" => epochsDone = nEpochs
    /\ tpc \notin {"idle", "loop", "done"} => epoch = epochsDone

C7_Witness ==
    /\ tpc = "done" /\ nEpochs = 3 /\ epochsDone = 3
    /\ DOMAIN files = {0, 1, 2}

RECURSIVE Repeat(_, _)
Repeat(sq, n) == IF n = 0 THEN <<>> ELSE sq \o Repeat(sq, n - 1)

\* C9: a completed epoch ran, in this order, every training batch as
\* forward, zero_grad, backward, clip, optimizer step; every validation
\* batch as a forward only; one scheduler.step with a metric; the save.
\* Each checkpoint holds the parameters after its epoch's optimizer steps,
\* and the scheduler never raises inside the run.
C9_EpochOrder ==
    /\ (tpc = "loop" /\ epochsDone >= 1) =>
          trace = Repeat(<<"forward", "zero_grad", "backward", "clip", "opt_step">>,
                         nTrain)
                  \o Repeat(<<"val_forward">>, nVal)
                  \o <<"sched", "save">>
    /\ tpc # "raised"
    /\ tpc # "idle" => sRaised = "none" /\ (steps >= 1 => lastMetric # NoMetric)
    /\ \A e \in DOMAIN files : files[e] = (e + 1) * nTrain

C9_Witness ==
    /\ tpc = "loop" /\ epochsDone = 2 /\ nTrain = 2 /\ nVal = 2
    /\ last_epoch > warm_up_epoch /\ handled = "plateau"
    /\ Len(trace) = 14

====
